---- MODULE Spec2Model ----
(***************************************************************************)
(* lxfs: the create/open engine of the lxfs file system driver.            *)
(*                                                                         *)
(* The volume is modelled cell by cell: a block is a sequence of           *)
(* blockSizeBytes integer cells, a directory entry, a directory header and *)
(* a file header occupy one cell per field, a name one cell per character  *)
(* plus its NUL.  The chain map gives every block FREE, EOF or its         *)
(* successor.  lxfsCreate and lxfsOpen are translated statement by         *)
(* statement over that memory, including the two-block scratch buffer      *)
(* mp->dataBuffer and the one-block buffer mp->meta.                       *)
(***************************************************************************)
EXTENDS Integers, Sequences, FiniteSets, TLC

VARIABLES
    next,       \* the chain map: block -> FREE, EOF or the next block
    disk,       \* block -> its cells
    dataBuffer, \* mp->dataBuffer, two blocks long
    meta,       \* mp->meta, one block long
    clock,      \* time(NULL): one tick per request handled
    pc,         \* "idle", "open" (an lxfsOpen invocation is pending), "done", "hung"
    ocmd,       \* the open command being handled (path, flags, ..., status)
    replies,    \* number of luxSendKernel calls made for the current open request
    last,       \* what the last operation was and what it returned
    pre         \* chain map and blocks before the last operation

vars == <<next, disk, dataBuffer, meta, clock, pc, ocmd, replies, last, pre>>

(***************************************************************************)
(* Bounds of the model.                                                    *)
(***************************************************************************)
\* number of blocks of the volume, 1..NumBlocks (block 0 is never allocated)
NumBlocks == 7
\* number of requests handled in one behaviour
MaxOps == 2
\* cells per block (mp->blockSizeBytes)
blockSizeBytes == 32

(***************************************************************************)
(* Constants of the on-disk format and of the C library.                   *)
(***************************************************************************)
LXFS_BLOCK_FREE == 0
LXFS_BLOCK_EOF == 65535

LXFS_DIR_VALID == 1
LXFS_DIR_TYPE_SHIFT == 1
LXFS_DIR_TYPE_MASK == 3
LXFS_DIR_TYPE_FILE == 0
LXFS_DIR_TYPE_DIR == 1
LXFS_DIR_TYPE_SOFT_LINK == 2
LXFS_DIR_TYPE_HARD_LINK == 3

LXFS_PERMS_OWNER_R == 1
LXFS_PERMS_OWNER_W == 2
LXFS_PERMS_OWNER_X == 4
LXFS_PERMS_GROUP_R == 8
LXFS_PERMS_GROUP_W == 16
LXFS_PERMS_GROUP_X == 32
LXFS_PERMS_OTHER_R == 64
LXFS_PERMS_OTHER_W == 128
LXFS_PERMS_OTHER_X == 256

S_IFMT == 61440
S_IFREG == 32768
S_IFDIR == 16384
S_IFLNK == 40960
S_IRUSR == 256
S_IWUSR == 128
S_IXUSR == 64
S_IRGRP == 32
S_IWGRP == 16
S_IXGRP == 8
S_IROTH == 4
S_IWOTH == 2
S_IXOTH == 1

EIO == 5
ENOENT == 2
EACCES == 13
EEXIST == 17
ENOTDIR == 20
EISDIR == 21
ENOSPC == 28
ENOSYS == 38

\* '/'
SLASH == 47

(***************************************************************************)
(* Layout of the records, one cell per field.                              *)
(* LXFSDirectoryEntry: flags owner group permissions size createTime       *)
(*   modTime accessTime block entrySize name[]                             *)
(* LXFSDirectoryHeader: createTime modTime accessTime sizeEntries          *)
(*   sizeBytes reserved                                                    *)
(* LXFSFileHeader: refCount size                                           *)
(***************************************************************************)
ENTRY_FIXED == 10
OFF_FLAGS == 0
OFF_OWNER == 1
OFF_GROUP == 2
OFF_PERMS == 3
OFF_SIZE == 4
OFF_CTIME == 5
OFF_MTIME == 6
OFF_ATIME == 7
OFF_BLOCK == 8
OFF_ENTRYSIZE == 9

DIRHDR_SIZE == 6
DH_CTIME == 0
DH_MTIME == 1
DH_ATIME == 2
DH_ENTRIES == 3
DH_BYTES == 4

FH_REFCOUNT == 0
FH_SIZE == 1

Blocks == 1..NumBlocks
RootBlock == 1

(***************************************************************************)
(* Bit arithmetic on non-negative integers; b is a power of two.           *)
(***************************************************************************)
HasBit(x, b) == (x \div b) % 2 = 1
BitOr(x, b) == IF HasBit(x, b) THEN x ELSE x + b
BitClear(x, b) == IF HasBit(x, b) THEN x - b ELSE x

Zeros(n) == [i \in 1..n |-> 0]
Fill(n, v) == [i \in 1..n |-> v]

\* cells [off, off+len) of s, 0-based
Cut(s, off, len) == SubSeq(s, off + 1, off + len)
\* s with the cells of t written at 0-based offset off
Poke(s, off, t) ==
    [i \in 1..Len(s) |-> IF i > off /\ i <= off + Len(t) THEN t[i - off] ELSE s[i]]

(***************************************************************************)
(* Paths.                                                                  *)
(***************************************************************************)
RECURSIVE SplitFrom(_, _, _)
SplitFrom(p, i, cur) ==
    IF i > Len(p) THEN (IF cur = <<>> THEN <<>> ELSE <<cur>>)
    ELSE IF p[i] = SLASH
         THEN (IF cur = <<>> THEN <<>> ELSE <<cur>>) \o SplitFrom(p, i + 1, <<>>)
         ELSE SplitFrom(p, i + 1, Append(cur, p[i]))

\* the non-empty components of a path
Components(p) == SplitFrom(p, 1, <<>>)

pathDepth(p) == Len(Components(p))

\* pathComponent(dest, path, n): the n-th component, <<>> (NULL) when there is none
pathComponent(p, n) ==
    IF n >= 0 /\ n < pathDepth(p) THEN Components(p)[n + 1] ELSE <<>>

\* strrchr(path, '/'): 1-based index of the last '/', 0 when there is none
LastSlash(p) ==
    IF \E i \in 1..Len(p) : p[i] = SLASH
    THEN CHOOSE i \in 1..Len(p) : p[i] = SLASH /\ \A j \in (i + 1)..Len(p) : p[j] # SLASH
    ELSE 0

\* the C string stored at the start of a cell sequence
RECURSIVE CStr(_, _)
CStr(s, i) ==
    IF i > Len(s) \/ s[i] = 0 THEN <<>> ELSE <<s[i]>> \o CStr(s, i + 1)

(***************************************************************************)
(* Directory entries in memory (LXFSDirectoryEntry) and in cells.          *)
(***************************************************************************)
TypeOf(flags) == (flags \div (2 ^ LXFS_DIR_TYPE_SHIFT)) % (LXFS_DIR_TYPE_MASK + 1)
IsValid(flags) == HasBit(flags, LXFS_DIR_VALID)

\* the first entrySize cells of the structure: the fixed fields, the name, its NUL
EntryCells(e) ==
    <<e.flags, e.owner, e.group, e.permissions, e.size, e.createTime, e.modTime,
      e.accessTime, e.block, e.entrySize>> \o e.name \o <<0>>

\* the entry whose first cell is cells[idx+1]
ParseEntry(cells, idx) ==
    [flags |-> cells[idx + OFF_FLAGS + 1], owner |-> cells[idx + OFF_OWNER + 1],
     group |-> cells[idx + OFF_GROUP + 1], permissions |-> cells[idx + OFF_PERMS + 1],
     size |-> cells[idx + OFF_SIZE + 1], createTime |-> cells[idx + OFF_CTIME + 1],
     modTime |-> cells[idx + OFF_MTIME + 1], accessTime |-> cells[idx + OFF_ATIME + 1],
     block |-> cells[idx + OFF_BLOCK + 1], entrySize |-> cells[idx + OFF_ENTRYSIZE + 1],
     name |-> CStr(cells, idx + ENTRY_FIXED + 1)]

\* the entry lxfsFind returns for "/": the root directory, owned by root
RootEntry ==
    [flags |-> LXFS_DIR_VALID + LXFS_DIR_TYPE_DIR * (2 ^ LXFS_DIR_TYPE_SHIFT),
     owner |-> 0, group |-> 0, permissions |-> 511, size |-> 0, createTime |-> 0,
     modTime |-> 0, accessTime |-> 0, block |-> RootBlock, entrySize |-> 0,
     name |-> <<>>]

(***************************************************************************)
(* Block Store.  m is the driver's memory and device during one request:   *)
(* next, disk, db (mp->dataBuffer), meta (mp->meta), io (device operations *)
(* issued so far), faults (the operations that fail), failed (source lines *)
(* of the calls that failed).  A failed operation changes nothing.         *)
(* lxfsFlushBlock has no effect on these and is left out.                  *)
(***************************************************************************)
IoFails(m) == (m.io + 1) \in m.faults
Issued(m) == [m EXCEPT !.io = @ + 1]
Failed(m, site) == [Issued(m) EXCEPT !.failed = @ \cup {site}]

\* lxfsReadBlock(mp, b, buffer): buf is "db" or "meta", off the offset in it
lxfsReadBlock(m, site, b, buf, off) ==
    IF IoFails(m) \/ b \notin Blocks
    THEN [m |-> Failed(m, site), err |-> TRUE]
    ELSE [m |-> [Issued(m) EXCEPT ![buf] = Poke(@, off, m.disk[b])], err |-> FALSE]

lxfsWriteBlock(m, site, b, cells) ==
    IF IoFails(m) \/ b \notin Blocks
    THEN [m |-> Failed(m, site), err |-> TRUE]
    ELSE [m |-> [Issued(m) EXCEPT !.disk = [@ EXCEPT ![b] = cells]], err |-> FALSE]

lxfsSetNextBlock(m, site, b, v) ==
    IF IoFails(m) \/ b \notin Blocks
    THEN [m |-> Failed(m, site), err |-> TRUE]
    ELSE [m |-> [Issued(m) EXCEPT !.next = [@ EXCEPT ![b] = v]], err |-> FALSE]

\* lxfsNextBlock(mp, b): the chain map's value for b, 0 on failure
lxfsNextBlock(m, site, b) ==
    IF IoFails(m) \/ b \notin Blocks
    THEN [m |-> Failed(m, site), val |-> 0]
    ELSE [m |-> Issued(m), val |-> m.next[b]]

\* lxfsReadNextBlock(mp, b, buffer): read b, return its successor, 0 on failure
lxfsReadNextBlock(m, site, b, buf, off) ==
    LET r == lxfsReadBlock(m, site, b, buf, off)
    IN  IF r.err THEN [m |-> r.m, val |-> 0] ELSE lxfsNextBlock(r.m, site, b)

\* lxfsFindFreeBlock(mp, 0): first fit from the start of the chain map, 0 if none
lxfsFindFreeBlock(m) ==
    IF \E b \in Blocks : m.next[b] = LXFS_BLOCK_FREE
    THEN CHOOSE b \in Blocks :
            /\ m.next[b] = LXFS_BLOCK_FREE
            /\ \A c \in Blocks : c < b => m.next[c] # LXFS_BLOCK_FREE
    ELSE 0

(***************************************************************************)
(* Chains.                                                                 *)
(***************************************************************************)
RECURSIVE ChainFrom(_, _, _)
ChainFrom(nx, b, fuel) ==
    IF b \notin Blocks \/ fuel = 0 THEN <<>>
    ELSE <<b>> \o ChainFrom(nx, nx[b], fuel - 1)

\* the blocks of the chain that starts at b, in order
Chain(nx, b) == ChainFrom(nx, b, NumBlocks)

RECURSIVE Concat(_, _, _)
Concat(dk, blocks, i) ==
    IF i > Len(blocks) THEN <<>> ELSE dk[blocks[i]] \o Concat(dk, blocks, i + 1)

\* the cells of the chain that starts at b
ChainCells(nx, dk, b) == Concat(dk, Chain(nx, b), 1)

(***************************************************************************)
(* Path Resolver.  Scans the packed entries of a directory's chain for a   *)
(* valid entry with the name, skipping other slots by their entrySize and  *)
(* stopping at unused space (entrySize 0) or at the end of the chain.      *)
(***************************************************************************)
RECURSIVE ScanDir(_, _, _)
ScanDir(cells, idx, name) ==
    IF idx + ENTRY_FIXED > Len(cells) THEN -1
    ELSE IF IsValid(cells[idx + OFF_FLAGS + 1]) /\ CStr(cells, idx + ENTRY_FIXED + 1) = name
         THEN idx
         ELSE IF cells[idx + OFF_ENTRYSIZE + 1] = 0 THEN -1
              ELSE ScanDir(cells, idx + cells[idx + OFF_ENTRYSIZE + 1], name)

NotFound(m) == [m |-> m, found |-> FALSE, entry |-> RootEntry, dirBlock |-> 0, off |-> 0]

RECURSIVE FindWalk(_, _, _, _, _, _)
FindWalk(m, comps, i, cur, dirBlock, off) ==
    IF i > Len(comps)
    THEN [m |-> m, found |-> TRUE, entry |-> cur, dirBlock |-> dirBlock, off |-> off]
    ELSE IF TypeOf(cur.flags) # LXFS_DIR_TYPE_DIR THEN NotFound(m)
    ELSE IF IoFails(m) \/ cur.block \notin Blocks THEN NotFound(Failed(m, 0))
    ELSE LET cells == ChainCells(m.next, m.disk, cur.block)
             idx == ScanDir(cells, DIRHDR_SIZE, comps[i])
         IN  IF idx < 0 THEN NotFound(Issued(m))
             ELSE FindWalk(Issued(m), comps, i + 1, ParseEntry(cells, idx), cur.block, idx)

\* lxfsFind(dest, mp, path, NULL, NULL)
lxfsFind(m, path) == FindWalk(m, Components(path), 1, RootEntry, 0, 0)

\* resolution on a quiescent volume, without device failures
Quiet(nx, dk) ==
    [next |-> nx, disk |-> dk, db |-> Zeros(2 * blockSizeBytes), meta |-> Zeros(blockSizeBytes),
     io |-> 0, faults |-> {}, failed |-> {}, ub |-> FALSE, oob |-> 0]
Resolve(nx, dk, path) == lxfsFind(Quiet(nx, dk), path)

(***************************************************************************)
(* Create Engine: lxfsCreate.                                              *)
(***************************************************************************)
\* a cell of mp->dataBuffer; a read past the end of the buffer yields m.oob
Rd(m, i) == IF i < Len(m.db) THEN m.db[i + 1] ELSE m.oob

\* !dir->flags & LXFS_DIR_VALID: "!" binds tighter than "&"
SlotFree(flags) == (IF flags = 0 THEN 1 ELSE 0) % 2 = 1 /\ LXFS_DIR_VALID % 2 = 1

\* !dir->flags & LXFS_DIR_VALID && (!dir->entrySize || dir->entrySize >= dest->entrySize)
FreeAndFits(m, dir, need) ==
    /\ SlotFree(Rd(m, dir + OFF_FLAGS))
    /\ (Rd(m, dir + OFF_ENTRYSIZE) = 0 \/ Rd(m, dir + OFF_ENTRYSIZE) >= need)

\* while(offset < mp->blockSizeBytes) { if(free and fits) break; advance }
\* hang: the entry is not free and its entrySize is 0, the loop never advances
RECURSIVE ScanWhile(_, _, _, _)
ScanWhile(m, offset, dir, need) ==
    IF offset >= blockSizeBytes \/ FreeAndFits(m, dir, need)
    THEN [offset |-> offset, dir |-> dir, hang |-> FALSE]
    ELSE IF Rd(m, dir + OFF_ENTRYSIZE) = 0
         THEN [offset |-> offset, dir |-> dir, hang |-> TRUE]
         ELSE ScanWhile(m, offset + Rd(m, dir + OFF_ENTRYSIZE),
                        dir + Rd(m, dir + OFF_ENTRYSIZE), need)

\* line 197 copying only the part of the entry that lies before the block's end
PutEntryClipped(m, dir, dest) ==
    [m EXCEPT !.db = Poke(@, dir, SubSeq(EntryCells(dest), 1,
                                         IF dir < blockSizeBytes /\ dir + dest.entrySize > blockSizeBytes
                                         THEN blockSizeBytes - dir ELSE dest.entrySize)),
              !.ub = @ \/ dir + dest.entrySize > Len(m.db)]

\* memcpy(dir, dest, dest->entrySize) into mp->dataBuffer; cells past the end of
\* the buffer are outside the model's memory (ub records the overrun)
PutEntry(m, dir, dest) ==
    [m EXCEPT !.db = Poke(@, dir, EntryCells(dest)),
              !.ub = @ \/ dir + dest.entrySize > Len(m.db)]

\* the nine tests of lines 88-96: mode bit, permission bit
PermBits ==
    <<<<S_IRUSR, LXFS_PERMS_OWNER_R>>, <<S_IWUSR, LXFS_PERMS_OWNER_W>>,
      <<S_IXUSR, LXFS_PERMS_OWNER_X>>, <<S_IRGRP, LXFS_PERMS_GROUP_R>>,
      <<S_IWGRP, LXFS_PERMS_GROUP_W>>, <<S_IXGRP, LXFS_PERMS_GROUP_X>>,
      <<S_IROTH, LXFS_PERMS_OTHER_R>>, <<S_IWOTH, LXFS_PERMS_OTHER_W>>,
      <<S_IXOTH, LXFS_PERMS_OTHER_X>>>>

\* if(mode & S_x) dest->permissions |= LXFS_PERMS_x, from the i-th test on
RECURSIVE ModePermsFrom(_, _, _)
ModePermsFrom(p, mode, i) ==
    IF i > Len(PermBits) THEN p
    ELSE ModePermsFrom(IF HasBit(mode, PermBits[i][1]) THEN BitOr(p, PermBits[i][2]) ELSE p,
                       mode, i + 1)

\* the permission translation of lines 88-96, or-ed into the template's field
ModePerms(p0, mode) == ModePermsFrom(p0, mode, 1)

S_ISREG(mode) == (mode \div 4096) % 16 = S_IFREG \div 4096
S_ISDIR(mode) == (mode \div 4096) % 16 = S_IFDIR \div 4096
S_ISLNK(mode) == (mode \div 4096) % 16 = S_IFLNK \div 4096

\* the type bits of lines 82-86
ModeFlags(hardLink, mode) ==
    LXFS_DIR_VALID + (2 ^ LXFS_DIR_TYPE_SHIFT) *
        (IF hardLink # 0 THEN LXFS_DIR_TYPE_HARD_LINK
         ELSE IF S_ISREG(mode) THEN LXFS_DIR_TYPE_FILE
         ELSE IF S_ISLNK(mode) THEN LXFS_DIR_TYPE_SOFT_LINK
         ELSE IF S_ISDIR(mode) THEN LXFS_DIR_TYPE_DIR
         ELSE 0)

\* lines 73-79 granting the write when any class of the parent may write
ParentWritableAny(parent, uid, gid) ==
    \/ HasBit(parent.permissions, LXFS_PERMS_OWNER_W)
    \/ HasBit(parent.permissions, LXFS_PERMS_GROUP_W)
    \/ HasBit(parent.permissions, LXFS_PERMS_OTHER_W)

\* the write permission check on the parent, lines 73-79
ParentWritable(parent, uid, gid) ==
    IF uid = parent.owner THEN HasBit(parent.permissions, LXFS_PERMS_OWNER_W)
    ELSE IF gid = parent.group THEN HasBit(parent.permissions, LXFS_PERMS_GROUP_W)
    ELSE HasBit(parent.permissions, LXFS_PERMS_OTHER_W)

\* what lxfsCreate hands back, with what it did on the way:
\*   ret       the return value (0 or a negative errno); hang: it never returns
\*   dest      the entry as built;  objBlock: the block allocated for the object
\*   dirBlock  the block allocated for the parent directory (0: none)
\*   slotBlock, slotOff: the directory block and offset the entry was placed at
\*   inserted  the entry was written to the directory
\*   hardLink, mode, uid, gid: the arguments of the call
NoGhost ==
    [dest |-> RootEntry, objBlock |-> 0, dirBlock |-> 0, slotBlock |-> 0, slotOff |-> 0,
     parentBlock |-> 0, inserted |-> FALSE, hardLink |-> 0, mode |-> 0, uid |-> 0, gid |-> 0,
     need |-> 0]
Done(m, ret, g) == [m |-> m, ret |-> ret, hang |-> FALSE, g |-> g]
Hung(m, g) == [m |-> m, ret |-> 0, hang |-> TRUE, g |-> g]

\* lines 207-219: the parent's header after the insertion
UpdateParent(m, g, parentBlock, need, timestamp) ==
    LET Write(h) ==
            Done(lxfsWriteBlock(h, 217, parentBlock, Cut(h.db, 0, blockSizeBytes)).m, 0, g)
        Update(r) ==
            IF r.err THEN Done(r.m, 0, g)
            ELSE Write([r.m EXCEPT !.db = [@ EXCEPT ![DH_BYTES + 1] = @ + need,
                                                    ![DH_ENTRIES + 1] = @ + 1,
                                                    ![DH_ATIME + 1] = timestamp,
                                                    ![DH_MTIME + 1] = timestamp]])
    IN  Update(lxfsReadBlock(m, 210, parentBlock, "db", 0))

\* lines 178-185: the entry lies inside the current block
PlaceInside(m, g, dest, hardLink, prevBlock, dir, parentBlock, timestamp) ==
    LET Written(w) ==
            IF w.err
            THEN Done(IF hardLink = 0
                      THEN lxfsSetNextBlock(w.m, 182, dest.block, LXFS_BLOCK_FREE).m
                      ELSE w.m, -EIO, g)
            ELSE UpdateParent(w.m, [g EXCEPT !.inserted = TRUE], parentBlock,
                              dest.entrySize, timestamp)
        Write(put) == Written(lxfsWriteBlock(put, 181, prevBlock, Cut(put.db, 0, blockSizeBytes)))
    IN  Write(PutEntry(m, dir, dest))

\* lines 186-205: the entry crosses the end of the current block
PlaceAcross(m, g, dest, prevBlock, dir, parentBlock, timestamp) ==
    LET G2(block) == [g EXCEPT !.dirBlock = block]
        Second(w2, block) ==
            IF w2.err THEN Done(w2.m, -EIO, G2(block))
            ELSE UpdateParent(w2.m, [G2(block) EXCEPT !.inserted = TRUE], parentBlock,
                              dest.entrySize, timestamp)
        First(w1, block) ==
            IF w1.err THEN Done(w1.m, -EIO, G2(block))
            ELSE Second(lxfsWriteBlock(w1.m, 200, block,
                                       Cut(w1.m.db, blockSizeBytes, blockSizeBytes)), block)
        Write(put, block) ==
            First(lxfsWriteBlock(put, 198, prevBlock, Cut(put.db, 0, blockSizeBytes)), block)
        Ended(s2, block) ==
            IF s2.err
            THEN Done(lxfsSetNextBlock(s2.m, 192, prevBlock, LXFS_BLOCK_EOF).m, -EIO, G2(block))
            ELSE Write(PutEntry([s2.m EXCEPT !.db = Poke(@, blockSizeBytes, Zeros(blockSizeBytes))],
                                dir, dest), block)
        Linked(s1, block) ==
            IF s1.err THEN Done(s1.m, -EIO, g)
            ELSE Ended(lxfsSetNextBlock(s1.m, 191, block, LXFS_BLOCK_EOF), block)
        Found(block) ==
            IF block = 0 THEN Done(m, -ENOSPC, g)
            ELSE Linked(lxfsSetNextBlock(m, 190, prevBlock, block), block)
    IN  Found(lxfsFindFreeBlock(m))

\* lines 162-231: for(;;) over the parent's chain.  block0, offset0 and dir0 are the
\* C variables at the top of an iteration; dir is never moved back when offset is
RECURSIVE InsertLoop(_, _, _, _, _, _, _, _, _, _)
InsertLoop(m, g, dest, hardLink, parentBlock, timestamp, block0, offset0, dir0, fuel) ==
    LET prevBlock == block0
        Place(m3, w, block) ==
            IF w.hang THEN Hung(m3, g)
            ELSE IF FreeAndFits(m3, w.dir, dest.entrySize)
                 THEN IF w.offset + dest.entrySize <= blockSizeBytes
                      THEN PlaceInside(m3, [g EXCEPT !.slotBlock = prevBlock,
                                                     !.slotOff = w.offset],
                                       dest, hardLink, prevBlock, w.dir, parentBlock, timestamp)
                      ELSE PlaceAcross(m3, [g EXCEPT !.slotBlock = prevBlock,
                                                     !.slotOff = w.offset],
                                       dest, prevBlock, w.dir, parentBlock, timestamp)
            ELSE IF block = LXFS_BLOCK_EOF THEN Done(m3, -ENOSYS, g)
            ELSE InsertLoop([m3 EXCEPT !.db = Poke(@, blockSizeBytes, Cut(@, 0, blockSizeBytes))],
                            g, dest, hardLink, parentBlock, timestamp, block,
                            w.offset - blockSizeBytes, w.dir, fuel - 1)
        Scanned(m2, w, block) ==
            Place([m2 EXCEPT !.ub = @ \/ w.dir + OFF_ENTRYSIZE >= Len(m2.db)], w, block)
        Scan(m2, block) == Scanned(m2, ScanWhile(m2, offset0, dir0, dest.entrySize), block)
        Read(rn) ==
            IF rn.val = 0 THEN Done(rn.m, -EIO, g)
            ELSE Scan(IF rn.val # LXFS_BLOCK_EOF
                      THEN lxfsReadBlock(rn.m, 168, rn.val, "db", blockSizeBytes).m
                      ELSE rn.m, rn.val)
    IN  IF fuel = 0 THEN Hung(m, g)
        ELSE Read(lxfsReadNextBlock(m, 164, block0, "db", 0))

\* line 149 with the header counted twice
RefCountUpTwice(db) == [db EXCEPT ![FH_REFCOUNT + 1] = @ + 2]

\* line 149: fileHeader->refCount++ on the block in mp->dataBuffer
RefCountUp(db) == [db EXCEPT ![FH_REFCOUNT + 1] = @ + 1]

\* lines 118-120 with a header that counts no name
NewFileHeaderUncounted(db) == [db EXCEPT ![FH_REFCOUNT + 1] = 0, ![FH_SIZE + 1] = 0]

\* lines 118-120: the File Header of a new file in mp->dataBuffer
NewFileHeader(db) == [db EXCEPT ![FH_REFCOUNT + 1] = 1, ![FH_SIZE + 1] = 0]

\* lines 109-152: the storage of the new object, then the insertion
Allocate(m, g0, dest0, hardLink, parent, mode, timestamp, symlink) ==
    LET free == lxfsFindFreeBlock(m)
        dest == IF hardLink = 0 THEN [dest0 EXCEPT !.block = free] ELSE dest0
        g == [g0 EXCEPT !.dest = dest, !.objBlock = IF hardLink = 0 THEN free ELSE 0]
        Payload(db) ==
            IF S_ISREG(mode)
            THEN NewFileHeader(db)
            ELSE IF S_ISDIR(mode)
            THEN [db EXCEPT ![DH_ATIME + 1] = timestamp, ![DH_CTIME + 1] = timestamp,
                            ![DH_MTIME + 1] = timestamp, ![DH_BYTES + 1] = DIRHDR_SIZE,
                            ![DH_ENTRIES + 1] = 0]
            ELSE IF S_ISLNK(mode) THEN Poke(db, 0, symlink \o <<0>>)
            ELSE db
        writes == S_ISREG(mode) \/ S_ISDIR(mode) \/ S_ISLNK(mode)
        destN == IF S_ISLNK(mode) THEN [dest EXCEPT !.size = Len(symlink)] ELSE dest
        Stored(mm, ret, d) == [m |-> mm, ret |-> ret, dest |-> d]
        \* new object, lines 110-145
        ObjWritten(w) ==
            IF w.err THEN Stored(lxfsSetNextBlock(w.m, 122, free, LXFS_BLOCK_FREE).m, -EIO, dest)
            ELSE Stored(w.m, 0, destN)
        ObjWrite(p) ==
            IF writes THEN ObjWritten(lxfsWriteBlock(p, 121, free, Cut(p.db, 0, blockSizeBytes)))
            ELSE Stored(p, 0, destN)
        Marked(s) ==
            IF s.err THEN Stored(s.m, -EIO, dest)
            ELSE ObjWrite([s.m EXCEPT !.db = Payload(Poke(@, 0, Zeros(blockSizeBytes)))])
        \* hard link, lines 146-152
        LinkWritten(wh) ==
            IF wh.err THEN Stored(wh.m, -EIO, dest)
            ELSE Stored(wh.m, 0, [dest EXCEPT !.size = wh.m.db[FH_SIZE + 1]])
        LinkWrite(inc) ==
            LinkWritten(lxfsWriteBlock(inc, 151, dest.block, Cut(inc.db, 0, blockSizeBytes)))
        LinkRead(r) ==
            IF r.err THEN Stored(r.m, -EIO, dest)
            ELSE LinkWrite([r.m EXCEPT !.db = RefCountUp(@)])
        Insert(st) ==
            IF st.ret # 0 THEN Done(st.m, st.ret, g)
            ELSE InsertLoop(st.m, [g EXCEPT !.dest = st.dest], st.dest, hardLink, parent.block,
                            timestamp, parent.block, DIRHDR_SIZE, DIRHDR_SIZE, NumBlocks + 1)
    IN  IF hardLink = 0 /\ free = 0 THEN Done(m, -ENOSPC, g0)
        ELSE Insert(IF hardLink = 0
                    THEN Marked(lxfsSetNextBlock(m, 112, free, LXFS_BLOCK_EOF))
                    ELSE LinkRead(lxfsReadBlock(m, 147, dest.block, "db", 0)))

\* lxfsCreate(dest, mp, path, mode, uid, gid, symlink); timestamp is time(NULL)
lxfsCreate(m, tmpl, path, mode, uid, gid, symlink, timestamp) ==
    LET hardLink == tmpl.block
        depth == pathDepth(path)
        slash == LastSlash(path)
        name == pathComponent(path, depth - 1)
        dest == [tmpl EXCEPT !.name = name,
                             !.entrySize = ENTRY_FIXED + Len(name) + 1,
                             !.flags = ModeFlags(hardLink, mode),
                             !.permissions = ModePerms(@, mode),
                             !.size = 0, !.owner = uid, !.group = gid,
                             !.accessTime = timestamp, !.createTime = timestamp,
                             !.modTime = timestamp]
        g0 == [NoGhost EXCEPT !.hardLink = hardLink, !.mode = mode, !.uid = uid, !.gid = gid]
        G(parent) == [g0 EXCEPT !.parentBlock = parent.block,
                                !.need = ENTRY_FIXED + Len(name) + 1]
        \* f: what lxfsFind returned for the parent
        Parent(f) ==
            IF ~f.found THEN Done(f.m, IF depth <= 1 THEN -EIO ELSE -ENOENT, g0)
            ELSE IF name = <<>> THEN Done(f.m, -ENOENT, g0)
            ELSE IF TypeOf(f.entry.flags) # LXFS_DIR_TYPE_DIR THEN Done(f.m, -ENOTDIR, G(f.entry))
            ELSE IF ~ParentWritable(f.entry, uid, gid) THEN Done(f.m, -EACCES, G(f.entry))
            ELSE Allocate(f.m, G(f.entry), dest, hardLink, f.entry, mode, timestamp, symlink)
    IN  IF depth > 1 /\ slash = 0 THEN Done(m, -ENOENT, g0)
        ELSE Parent(lxfsFind(m, IF depth <= 1 THEN <<SLASH>> ELSE SubSeq(path, 1, slash - 1)))

(***************************************************************************)
(* Open Engine: lxfsOpen.  One invocation of the function is one step; the *)
(* recursive call for a soft link is the next step.                        *)
(***************************************************************************)
\* x & ~y on the low 16 bits
RECURSIVE AndNotFrom(_, _, _)
AndNotFrom(x, y, b) ==
    IF b > 32768 THEN 0
    ELSE (IF HasBit(x, b) /\ ~HasBit(y, b) THEN b ELSE 0) + AndNotFrom(x, y, 2 * b)
AndNot(x, y) == AndNotFrom(x, y, 1)

\* what one invocation of lxfsOpen hands back:
\*   sent     the number of luxSendKernel calls it made itself
\*   recurse  it ends by calling lxfsOpen(ocmd) again
\*   hang     it never returns
\*   created  lxfsCreate was called, cret is what it returned
Reply(m, oc, status) ==
    [m |-> m, oc |-> [oc EXCEPT !.status = status], sent |-> 1, recurse |-> FALSE,
     hang |-> FALSE, created |-> FALSE, c |-> NoGhost, cret |-> 0]

\* lines 36-57 without the test of lines 43-51
OpenCreateUnchecked(m, oc, tmpl, timestamp) ==
    LET mode == BitOr(AndNot(oc.mode, oc.umask), S_IFREG)
        Created(c) ==
            [Reply(c.m, oc, c.ret) EXCEPT !.hang = c.hang, !.created = TRUE, !.c = c.g,
                                          !.cret = c.ret,
                                          !.sent = IF c.hang THEN 0 ELSE 1]
    IN  Created(lxfsCreate(m, [tmpl EXCEPT !.block = 0], oc.path, mode, oc.uid, oc.gid,
                           <<>>, timestamp))

\* lines 36-57: the path does not resolve and O_CREAT is set
OpenCreate(m, oc, tmpl, timestamp) ==
    LET mode == BitOr(AndNot(oc.mode, oc.umask), S_IFREG)
        denied == \/ ("O_RDONLY" \in oc.flags /\ ~HasBit(mode, S_IRUSR))
                  \/ ("O_WRONLY" \in oc.flags /\ ~HasBit(mode, S_IWUSR))
        Created(c) ==
            [Reply(c.m, oc, c.ret) EXCEPT !.hang = c.hang, !.created = TRUE, !.c = c.g,
                                          !.cret = c.ret,
                                          !.sent = IF c.hang THEN 0 ELSE 1]
    IN  IF denied THEN Reply(m, oc, -EACCES)
        ELSE Created(lxfsCreate(m, [tmpl EXCEPT !.block = 0], oc.path, mode, oc.uid, oc.gid,
                                <<>>, timestamp))

\* lines 95-113: the chain of the file after its header was rewritten
RECURSIVE TruncLoop(_, _, _, _)
TruncLoop(m, first, nextb, fuel) ==
    LET Followed(n) ==
            IF n.val = 0 THEN [m |-> n.m, err |-> TRUE]
            ELSE TruncLoop(n.m, first, n.val, fuel - 1)
        Marked(s) ==
            IF s.err THEN [m |-> s.m, err |-> TRUE]
            ELSE Followed(lxfsNextBlock(s.m, 107, nextb))
    IN  IF nextb = LXFS_BLOCK_EOF THEN [m |-> m, err |-> FALSE]
        ELSE IF fuel = 0 THEN [m |-> m, err |-> TRUE]
        ELSE Marked(IF nextb = first
                    THEN lxfsSetNextBlock(m, 98, nextb, LXFS_BLOCK_EOF)
                    ELSE lxfsSetNextBlock(m, 99, nextb, 0))

\* lines 80-114: O_TRUNC
Truncate(m, entry) ==
    LET Written(w) ==
            IF w.err THEN [m |-> w.m, err |-> TRUE]
            ELSE TruncLoop(w.m, entry.block, entry.block, NumBlocks + 1)
        Write(z) == Written(lxfsWriteBlock(z, 89, entry.block, z.meta))
        Read(r) ==
            IF r.err THEN [m |-> r.m, err |-> TRUE]
            ELSE Write([r.m EXCEPT !.meta = [@ EXCEPT ![FH_SIZE + 1] = 0]])
    IN  Read(lxfsReadBlock(m, 81, entry.block, "meta", 0))

\* lines 124-129: the working path taken from the link's block
LinkPath(metaCells, size) ==
    LET n == IF size < Len(metaCells) THEN size ELSE Len(metaCells)
        raw == Cut(metaCells, 0, n)
        moved == IF n > 0 /\ raw[1] = SLASH THEN Cut(raw, 1, n - 1) \o <<0>> ELSE raw
    IN  CStr(moved, 1)

\* lines 117-136 with a reply sent before the recursive call
SoftLinkRedirectReplying(m, oc, entry) ==
    LET r == lxfsReadBlock(m, 118, entry.block, "meta", 0)
    IN  IF r.err THEN Reply(r.m, oc, -EIO)
        ELSE [Reply(r.m, [oc EXCEPT !.path = LinkPath(r.m.meta, entry.size)], oc.status)
                EXCEPT !.recurse = TRUE]

\* lines 117-136: redirect through a soft link
SoftLinkRedirect(m, oc, entry) ==
    LET r == lxfsReadBlock(m, 118, entry.block, "meta", 0)
    IN  IF r.err THEN Reply(r.m, oc, -EIO)
        ELSE [Reply(r.m, [oc EXCEPT !.path = LinkPath(r.m.meta, entry.size)], oc.status)
                EXCEPT !.sent = 0, !.recurse = TRUE]

\* lines 139-149 with the owner's bits used for every caller
AccessStatusOwnerOnly(oc, entry) ==
    IF \/ ("O_RDONLY" \in oc.flags /\ ~HasBit(entry.permissions, LXFS_PERMS_OWNER_R))
       \/ ("O_WRONLY" \in oc.flags /\ ~HasBit(entry.permissions, LXFS_PERMS_OWNER_W))
    THEN -EACCES ELSE 0

\* lines 139-149: the status for a regular file or a hard link
AccessStatus(oc, entry) ==
    LET rd == "O_RDONLY" \in oc.flags
        wr == "O_WRONLY" \in oc.flags
        R == IF oc.uid = entry.owner THEN LXFS_PERMS_OWNER_R
             ELSE IF oc.gid = entry.group THEN LXFS_PERMS_GROUP_R ELSE LXFS_PERMS_OTHER_R
        W == IF oc.uid = entry.owner THEN LXFS_PERMS_OWNER_W
             ELSE IF oc.gid = entry.group THEN LXFS_PERMS_GROUP_W ELSE LXFS_PERMS_OTHER_W
    IN  IF (rd /\ ~HasBit(entry.permissions, R)) \/ (wr /\ ~HasBit(entry.permissions, W))
        THEN -EACCES ELSE 0

\* lxfsOpen with the O_TRUNC block of lines 80-114 moved before the tests of
\* lines 64-77
lxfsOpenTruncFirst(m, oc, tmpl, timestamp) ==
    LET Opened(t, entry) ==
            IF t.err THEN Reply(t.m, oc, -EIO)
            ELSE IF TypeOf(entry.flags) = LXFS_DIR_TYPE_DIR THEN Reply(t.m, oc, -EISDIR)
            ELSE IF "O_CREAT" \in oc.flags /\ "O_EXCL" \in oc.flags
                 THEN Reply(t.m, oc, -EEXIST)
            ELSE IF TypeOf(entry.flags) = LXFS_DIR_TYPE_SOFT_LINK
                 THEN SoftLinkRedirect(t.m, oc, entry)
            ELSE Reply(t.m, oc, AccessStatus(oc, entry))
        Found(f) ==
            IF ~f.found
            THEN IF "O_CREAT" \in oc.flags THEN OpenCreate(f.m, oc, tmpl, timestamp)
                 ELSE Reply(f.m, oc, -ENOENT)
            ELSE Opened(IF "O_TRUNC" \in oc.flags THEN Truncate(f.m, f.entry)
                        ELSE [m |-> f.m, err |-> FALSE], f.entry)
    IN  IF ~oc.mounted THEN Reply(m, oc, -EIO)
        ELSE Found(lxfsFind(m, oc.path))

\* lxfsOpen(ocmd); tmpl is the content of the local "entry" when lxfsFind fails
lxfsOpen(m, oc, tmpl, timestamp) ==
    LET \* lines 116-151; t is the memory after the O_TRUNC block
        Opened(t, entry) ==
            IF t.err THEN Reply(t.m, oc, -EIO)
            ELSE IF TypeOf(entry.flags) = LXFS_DIR_TYPE_SOFT_LINK
                 THEN SoftLinkRedirect(t.m, oc, entry)
            ELSE Reply(t.m, oc, AccessStatus(oc, entry))
        \* lines 34-114; f is what lxfsFind returned
        Found(f) ==
            IF ~f.found
            THEN IF "O_CREAT" \in oc.flags THEN OpenCreate(f.m, oc, tmpl, timestamp)
                 ELSE Reply(f.m, oc, -ENOENT)
            ELSE IF TypeOf(f.entry.flags) = LXFS_DIR_TYPE_DIR THEN Reply(f.m, oc, -EISDIR)
            ELSE IF "O_CREAT" \in oc.flags /\ "O_EXCL" \in oc.flags
                 THEN Reply(f.m, oc, -EEXIST)
            ELSE Opened(IF "O_TRUNC" \in oc.flags THEN Truncate(f.m, f.entry)
                        ELSE [m |-> f.m, err |-> FALSE], f.entry)
    IN  IF ~oc.mounted THEN Reply(m, oc, -EIO)
        ELSE Found(lxfsFind(m, oc.path))

(***************************************************************************)
(* Volumes the driver is mounted on.  Each is built from a formatted       *)
(* volume by the driver's own operations, so each is a state the program   *)
(* reaches.                                                                *)
(***************************************************************************)
\* the names used: "a", "b", "d", "l", "ab", "ba"
N_a == <<97>>
N_b == <<98>>
N_d == <<100>>
N_l == <<108>>
P_a == <<SLASH>> \o N_a
P_b == <<SLASH>> \o N_b
P_d == <<SLASH>> \o N_d
P_l == <<SLASH>> \o N_l
P_ab == <<SLASH>> \o N_a \o N_b
P_ba == <<SLASH>> \o N_b \o N_a
P_da == P_d \o P_a
P_db == P_d \o P_b
\* "/a/b": a path below a name that is not a directory
P_sub == P_a \o P_b

\* rw-r--r--, rwxr-xr-x, rwxrwxrwx, rw-r-----, r--r--r--
M_644 == S_IRUSR + S_IWUSR + S_IRGRP + S_IROTH
M_755 == S_IRUSR + S_IWUSR + S_IXUSR + S_IRGRP + S_IXGRP + S_IROTH + S_IXOTH
M_777 == M_755 + S_IWGRP + S_IWOTH
M_640 == S_IRUSR + S_IWUSR + S_IRGRP
M_444 == S_IRUSR + S_IRGRP + S_IROTH
M_022 == S_IWGRP + S_IWOTH

\* a volume with an empty root directory
Formatted ==
    [next |-> [b \in Blocks |-> IF b = RootBlock THEN LXFS_BLOCK_EOF ELSE LXFS_BLOCK_FREE],
     disk |-> [b \in Blocks |->
                 IF b = RootBlock
                 THEN Poke(Zeros(blockSizeBytes), DH_BYTES, <<DIRHDR_SIZE>>)
                 ELSE Zeros(blockSizeBytes)]]

\* the caller's entry structure with its block field and stale permission bits
Template(block, perms) == [RootEntry EXCEPT !.block = block, !.permissions = perms]

\* the volume held in the memory m
Volume(m) == [next |-> m.next, disk |-> m.disk]

\* v after one successful lxfsCreate
With(v, path, mode, uid, gid, hardLink, symlink) ==
    Volume(lxfsCreate(Quiet(v.next, v.disk), Template(hardLink, 0), path, mode, uid, gid,
                      symlink, 0).m)

\* block and cell of the directory chain position off of the directory at dirBlock
CellBlock(nx, dirBlock, off) == Chain(nx, dirBlock)[(off \div blockSizeBytes) + 1]
CellIndex(off) == (off % blockSizeBytes) + 1

\* the write path appending one block of data to the regular file at path:
\* a block is linked at the end of its chain, header and entry sizes grow
Grown(v, path) ==
    LET f == Resolve(v.next, v.disk, path)
        ch == Chain(v.next, f.entry.block)
        tail == ch[Len(ch)]
        nb == lxfsFindFreeBlock(Quiet(v.next, v.disk))
        size == f.entry.size + blockSizeBytes
        db == CellBlock(v.next, f.dirBlock, f.off + OFF_SIZE)
    IN  [next |-> [v.next EXCEPT ![tail] = nb, ![nb] = LXFS_BLOCK_EOF],
         disk |-> [v.disk EXCEPT ![f.entry.block] = [@ EXCEPT ![FH_SIZE + 1] = size],
                                 ![nb] = Fill(blockSizeBytes, N_a[1]),
                                 ![db] = [@ EXCEPT ![CellIndex(f.off + OFF_SIZE)] = size]]]

\* the entry at path invalidated by clearing only its validity flag
Invalidated(v, path) ==
    LET f == Resolve(v.next, v.disk, path)
        db == CellBlock(v.next, f.dirBlock, f.off + OFF_FLAGS)
    IN  [next |-> v.next,
         disk |-> [v.disk EXCEPT ![db] =
                     [@ EXCEPT ![CellIndex(f.off + OFF_FLAGS)] = BitClear(@, LXFS_DIR_VALID)]]]

\* "/a" (two blocks of data) and "/l" -> "/a"
V_grown ==
    Grown(With(With(Formatted, P_a, S_IFREG + M_644, 1, 1, 0, <<>>),
               P_l, S_IFLNK + M_777, 1, 1, 0, P_a), P_a)
\* "/d", "/l" -> "/l" and "/d/a"
V_dir ==
    With(With(With(Formatted, P_d, S_IFDIR + M_755, 1, 1, 0, <<>>),
              P_l, S_IFLNK + M_777, 1, 1, 0, P_l),
         P_da, S_IFREG + M_640, 1, 1, 0, <<>>)
\* "/ab" and "/ba" -> "/ab": the entries end exactly at the end of the root's block
V_full ==
    With(With(Formatted, P_ab, S_IFREG + M_644, 1, 1, 0, <<>>),
         P_ba, S_IFLNK + M_777, 1, 1, 0, P_ab)
\* "/a" and an unlinked "/l"
V_unlinked ==
    Invalidated(With(With(Formatted, P_a, S_IFREG + M_644, 1, 1, 0, <<>>),
                     P_l, S_IFLNK + M_777, 1, 1, 0, P_a), P_l)

Images == {Formatted, V_grown, V_dir, V_full, V_unlinked}

\* what malloc left in mp->dataBuffer at mount
BufferFills == {0, 1}

(***************************************************************************)
(* Requests.                                                               *)
(***************************************************************************)
Users == {<<1, 1>>, <<2, 2>>, <<2, 1>>}
\* stale permission bits in the caller's entry structure
TemplatePerms == {0, LXFS_PERMS_OTHER_W}
\* mkdir, symlink and link requests, which reach lxfsCreate directly
MkdirReqs == [kind : {"mkdir"}, path : {P_d, P_db, P_sub}, mode : {S_IFDIR + M_755},
              symlink : {<<>>}, src : {<<>>}]
SymlinkReqs ==
    {[kind |-> "symlink", path |-> P_l, mode |-> S_IFLNK + M_777, symlink |-> P_l, src |-> <<>>],
     [kind |-> "symlink", path |-> P_b, mode |-> S_IFLNK + M_777, symlink |-> P_a, src |-> <<>>]}
LinkReqs ==
    {[kind |-> "link", path |-> P_b, mode |-> S_IFREG + M_644, symlink |-> <<>>, src |-> P_a],
     [kind |-> "link", path |-> P_db, mode |-> S_IFREG + M_644, symlink |-> <<>>, src |-> P_da]}
CreateReqs == MkdirReqs \cup SymlinkReqs \cup LinkReqs

OpenFlagSets ==
    {{"O_RDONLY"}, {"O_WRONLY"}, {"O_RDONLY", "O_WRONLY"}, {"O_WRONLY", "O_TRUNC"}}
CreatFlagSets ==
    {{"O_WRONLY", "O_CREAT"}, {"O_RDONLY", "O_CREAT", "O_EXCL"},
     {"O_WRONLY", "O_CREAT", "O_TRUNC"}, {"O_WRONLY", "O_CREAT", "O_EXCL", "O_TRUNC"}}
ModeMasks == {<<M_644, 0>>, <<M_777, M_022>>, <<M_444, 0>>, <<M_644, S_IRUSR>>}
OpenReqs ==
    [path : {P_a, P_l, P_da, P_d}, flags : OpenFlagSets, mm : {<<0, 0>>}, mounted : {TRUE}]
    \cup [path : {P_b, P_l}, flags : CreatFlagSets, mm : ModeMasks, mounted : {TRUE}]
    \cup [path : {P_a}, flags : {{"O_RDONLY"}}, mm : {<<0, 0>>}, mounted : {FALSE}]

(***************************************************************************)
(* The driver: one request at a time.                                      *)
(***************************************************************************)
Mem(faults, oob) ==
    [next |-> next, disk |-> disk, db |-> dataBuffer, meta |-> meta, io |-> 0,
     faults |-> faults, failed |-> {}, ub |-> FALSE, oob |-> oob]

NoCmd ==
    [path |-> <<>>, orig |-> <<>>, flags |-> {}, mode |-> 0, umask |-> 0, uid |-> 0,
     gid |-> 0, mounted |-> TRUE, status |-> 0, hops |-> 0]

NoLast ==
    [op |-> "none", path |-> <<>>, mode |-> 0, uid |-> 0, gid |-> 0, hardLink |-> 0,
     symlink |-> <<>>, tmplPerms |-> 0, ret |-> 0, hang |-> FALSE, g |-> NoGhost,
     failed |-> {}, ub |-> FALSE, created |-> FALSE, cret |-> 0]

Init ==
    /\ \E v \in Images :
          /\ next = v.next
          /\ disk = v.disk
          /\ pre = v
    /\ \E fill \in BufferFills :
          /\ dataBuffer = Fill(2 * blockSizeBytes, fill)
          /\ fill # 0 => next = V_full.next /\ disk = V_full.disk
    /\ meta = Zeros(blockSizeBytes)
    /\ clock = 0
    /\ pc = "idle"
    /\ ocmd = NoCmd
    /\ replies = 0
    /\ last = NoLast

\* the memory and the device after a request
Commit(m) ==
    /\ next' = m.next
    /\ disk' = m.disk
    /\ dataBuffer' = m.db
    /\ meta' = m.meta

\* the device operations that fail during a request: none, or the k-th one, for
\* every k up to the number of operations the request issues when none fails
Faults(k) == IF k = 0 THEN {} ELSE {k}

\* the requests a device failure is injected into are those of FaultUser, made
\* with a clean entry structure
FaultUser == <<1, 1>>
FaultPoints(u, tp, issued) == IF u = FaultUser /\ tp = 0 THEN 0..issued ELSE {0}

\* a mkdir, symlink or link request: the handler has checked that the path does
\* not exist (and, for link, resolved the source) and calls lxfsCreate
CreateCall(r, u, tp, k) ==
    lxfsCreate(Mem(Faults(k), 0),
               Template(IF r.kind = "link" THEN Resolve(next, disk, r.src).entry.block ELSE 0, tp),
               r.path, r.mode, u[1], u[2], r.symlink, clock + 1)

CreateEnabled(r) ==
    /\ ~Resolve(next, disk, r.path).found
    /\ r.kind = "link" =>
          \E src \in {Resolve(next, disk, r.src)} :
             /\ src.found
             /\ TypeOf(src.entry.flags) \in {LXFS_DIR_TYPE_FILE, LXFS_DIR_TYPE_HARD_LINK}

Create ==
    /\ pc = "idle"
    /\ clock < MaxOps
    /\ \E r \in CreateReqs :
          /\ CreateEnabled(r)
          /\ \E u \in Users, tp \in TemplatePerms :
                \E c0 \in {CreateCall(r, u, tp, 0)} :
                   \E k \in FaultPoints(u, tp, c0.m.io) :
                      \E c \in {IF k = 0 THEN c0 ELSE CreateCall(r, u, tp, k)} :
                         /\ Commit(c.m)
                         /\ pc' = IF c.hang THEN "hung" ELSE "done"
                         /\ last' = [op |-> "create", path |-> r.path, mode |-> r.mode,
                                     uid |-> u[1], gid |-> u[2], hardLink |-> c.g.hardLink,
                                     symlink |-> r.symlink, tmplPerms |-> tp, ret |-> c.ret,
                                     hang |-> c.hang, g |-> c.g, failed |-> c.m.failed,
                                     ub |-> c.m.ub, created |-> TRUE, cret |-> c.ret]
    /\ pre' = [next |-> next, disk |-> disk]
    /\ clock' = clock + 1
    /\ UNCHANGED <<ocmd, replies>>

\* an open request is received
OpenAccept ==
    /\ pc = "idle"
    /\ clock < MaxOps
    /\ \E r \in OpenReqs, u \in Users :
          ocmd' = [path |-> r.path, orig |-> r.path, flags |-> r.flags, mode |-> r.mm[1],
                   umask |-> r.mm[2], uid |-> u[1], gid |-> u[2], mounted |-> r.mounted,
                   status |-> 0, hops |-> 0]
    /\ pc' = "open"
    /\ replies' = 0
    /\ clock' = clock + 1
    /\ pre' = [next |-> next, disk |-> disk]
    /\ last' = [NoLast EXCEPT !.op = "open"]
    /\ UNCHANGED <<next, disk, dataBuffer, meta>>

MaxHops == 2

\* one invocation of lxfsOpen(ocmd)
OpenCall(tp, k) == lxfsOpen(Mem(Faults(k), 0), ocmd, Template(0, tp), clock)

OpenStep ==
    /\ pc = "open"
    /\ \E tp \in TemplatePerms :
          \E o0 \in {OpenCall(tp, 0)} :
             \E k \in FaultPoints(<<ocmd.uid, ocmd.gid>>, tp, o0.m.io) :
                \E o \in {IF k = 0 THEN o0 ELSE OpenCall(tp, k)} :
                   /\ Commit(o.m)
                   /\ ocmd' = [o.oc EXCEPT !.hops = IF o.recurse /\ @ < MaxHops THEN @ + 1 ELSE @]
                   /\ replies' = replies + o.sent
                   /\ pc' = IF o.hang THEN "hung" ELSE IF o.recurse THEN "open" ELSE "done"
                   /\ last' = [last EXCEPT !.path = ocmd.path, !.ret = o.oc.status,
                                           !.hang = o.hang, !.g = o.c,
                                           !.tmplPerms = IF o.created THEN tp ELSE 0,
                                           !.failed = @ \cup o.m.failed, !.ub = @ \/ o.m.ub,
                                           !.created = o.created, !.cret = o.cret]
    /\ UNCHANGED <<clock, pre>>

\* an unlink clears the validity flag of the entry at a path
Invalidate ==
    /\ pc = "idle"
    /\ clock < MaxOps
    /\ \E path \in {P_a, P_l, P_d, P_ab} :
          /\ Resolve(next, disk, path).found
          /\ \E v \in {Invalidated([next |-> next, disk |-> disk], path)} :
                /\ next' = v.next
                /\ disk' = v.disk
          /\ last' = [NoLast EXCEPT !.op = "invalidate", !.path = path]
    /\ pre' = [next |-> next, disk |-> disk]
    /\ clock' = clock + 1
    /\ pc' = "done"
    /\ UNCHANGED <<dataBuffer, meta, ocmd, replies>>

\* the handler returns to the receive loop
Return ==
    /\ pc = "done"
    /\ pc' = "idle"
    /\ ocmd' = NoCmd
    /\ replies' = 0
    /\ last' = NoLast
    /\ pre' = [next |-> next, disk |-> disk]
    /\ UNCHANGED <<next, disk, dataBuffer, meta, clock>>

Next == Create \/ OpenAccept \/ OpenStep \/ Invalidate \/ Return

Spec == Init /\ [][Next]_vars

TypeOK ==
    /\ pc \in {"idle", "open", "done", "hung"}
    /\ clock \in 0..MaxOps
    /\ \A b \in Blocks : next[b] \in Blocks \cup {LXFS_BLOCK_FREE, LXFS_BLOCK_EOF}
    /\ Len(dataBuffer) = 2 * blockSizeBytes
    /\ Len(meta) = blockSizeBytes


(***************************************************************************)
(* Properties of lxfsOpen and lxfsCreate.  "pre" is the volume when the    *)
(* request arrived, "last" what the handler did.                           *)
(***************************************************************************)
Range(s) == {s[i] : i \in 1..Len(s)}

\* the paths requests name
Paths == {P_a, P_b, P_d, P_l, P_ab, P_ba, P_da, P_db}

\* the last request was an open that has been answered
OpenDone == pc = "done" /\ last.op = "open"
\* lxfsCreate was called by the last request and has returned
CreateDone == pc = "done" /\ last.created
\* what the path of the open request resolved to when the request arrived
Target == Resolve(pre.next, pre.disk, ocmd.orig)
\* blocks that were FREE when the request arrived and are not FREE now
Taken == {b \in Blocks : pre.next[b] = LXFS_BLOCK_FREE /\ next[b] # LXFS_BLOCK_FREE}

\* an answered O_TRUNC open of an existing regular file during which no device
\* operation failed
TruncCase ==
    /\ OpenDone
    /\ ocmd.mounted
    /\ "O_TRUNC" \in ocmd.flags
    /\ last.failed = {}
    /\ Target.found
    /\ TypeOf(Target.entry.flags) = LXFS_DIR_TYPE_FILE

\* C1: after an O_TRUNC open of an existing regular file without I/O failure the
\* File Header size is 0, the first block is EOF and every other block of the
\* file's former chain is FREE
C1_TruncateFreesChain ==
    TruncCase =>
        /\ disk[Target.entry.block][FH_SIZE + 1] = 0
        /\ next[Target.entry.block] = LXFS_BLOCK_EOF
        /\ \A b \in Range(Chain(pre.next, Target.entry.block)) \ {Target.entry.block} :
              next[b] = LXFS_BLOCK_FREE

\* the type tag the mode's file type selects
ModeType(mode) ==
    IF S_ISDIR(mode) THEN LXFS_DIR_TYPE_DIR
    ELSE IF S_ISLNK(mode) THEN LXFS_DIR_TYPE_SOFT_LINK ELSE LXFS_DIR_TYPE_FILE

\* C2: when lxfsCreate (not in hard-link mode) returns 0, whatever the caller's
\* template held, the path resolves to a valid entry with the type of the mode,
\* exactly the translated permission bits of the mode, and the owner and group
\* of the call
C2_CreateThenResolve ==
    (CreateDone /\ last.ret = 0 /\ last.g.hardLink = 0 /\ last.failed = {}) =>
        \E f \in {Resolve(next, disk, last.path)} :
           /\ f.found
           /\ IsValid(f.entry.flags)
           /\ TypeOf(f.entry.flags) = ModeType(last.g.mode)
           /\ f.entry.permissions = ModePerms(0, last.g.mode)
           /\ f.entry.owner = last.g.uid
           /\ f.entry.group = last.g.gid

\* an answered open of an existing regular file or hard link that reached the
\* permission check
AccessCase ==
    /\ OpenDone
    /\ ocmd.mounted
    /\ last.failed = {}
    /\ Target.found
    /\ TypeOf(Target.entry.flags) \in {LXFS_DIR_TYPE_FILE, LXFS_DIR_TYPE_HARD_LINK}
    /\ ~("O_CREAT" \in ocmd.flags /\ "O_EXCL" \in ocmd.flags)

\* the one permission class of the caller: owner, else group, else other
ClassOf(uid, gid, entry) ==
    IF uid = entry.owner THEN "owner" ELSE IF gid = entry.group THEN "group" ELSE "other"
ClassReads(class, perms) ==
    HasBit(perms, CASE class = "owner" -> LXFS_PERMS_OWNER_R
                    [] class = "group" -> LXFS_PERMS_GROUP_R
                    [] OTHER -> LXFS_PERMS_OTHER_R)
ClassWrites(class, perms) ==
    HasBit(perms, CASE class = "owner" -> LXFS_PERMS_OWNER_W
                    [] class = "group" -> LXFS_PERMS_GROUP_W
                    [] OTHER -> LXFS_PERMS_OTHER_W)
Denied ==
    LET class == ClassOf(ocmd.uid, ocmd.gid, Target.entry)
    IN  \/ ("O_RDONLY" \in ocmd.flags /\ ~ClassReads(class, Target.entry.permissions))
        \/ ("O_WRONLY" \in ocmd.flags /\ ~ClassWrites(class, Target.entry.permissions))

\* rw-r--r--
Perms644 ==
    LXFS_PERMS_OWNER_R + LXFS_PERMS_OWNER_W + LXFS_PERMS_GROUP_R + LXFS_PERMS_OTHER_R

\* C3: for an existing regular file or hard link the reply is AccessDenied exactly
\* when the caller's one permission class (owner, else group, else other) lacks a
\* requested access, and 0 otherwise; for rw-r--r-- owned by 1:1 a read by uid 1
\* succeeds and a write by 2:2 is denied
C3_PermissionClass ==
    AccessCase =>
        /\ ocmd.status = IF Denied THEN -EACCES ELSE 0
        /\ (/\ Target.entry.permissions = Perms644
            /\ Target.entry.owner = 1 /\ Target.entry.group = 1)
           => /\ (ocmd.uid = 1 /\ ocmd.flags = {"O_RDONLY"}) => ocmd.status = 0
              /\ (ocmd.uid = 2 /\ ocmd.gid = 2 /\ "O_WRONLY" \in ocmd.flags)
                    => ocmd.status = -EACCES

\* a write open of the rw-r--r-- file of 1:1 by 2:2 was denied
C3_Witness ==
    /\ AccessCase
    /\ Target.entry.permissions = Perms644
    /\ Target.entry.owner = 1
    /\ ocmd.uid = 2 /\ ocmd.gid = 2
    /\ "O_WRONLY" \in ocmd.flags
    /\ ocmd.status = -EACCES

\* lxfsCreate in hard-link mode returned 0
HardLinkDone == CreateDone /\ last.ret = 0 /\ last.g.hardLink # 0

C5_RollbackOnError ==
    (CreateDone /\ last.ret # 0 /\ last.g.hardLink = 0 /\ last.g.objBlock # 0)
        => next[last.g.objBlock] = LXFS_BLOCK_FREE

\* C6: an open request whose handling has ended got exactly one reply; none is
\* sent while the handler is still running, none is ever sent twice
C6_ExactlyOneReply ==
    /\ OpenDone => replies = 1
    /\ (pc = "open" \/ pc = "hung") => replies = 0
    /\ replies <= 1

\* an open redirected through a soft link has ended with its one reply
C6_Witness ==
    /\ OpenDone
    /\ replies = 1
    /\ ocmd.path # ocmd.orig
    /\ Target.found
    /\ TypeOf(Target.entry.flags) = LXFS_DIR_TYPE_SOFT_LINK

\* the invocation of lxfsOpen that just ended called lxfsOpen again with the path
\* it was given itself, on a volume it did not change: the next invocation does
\* what this one did, and so does every one after it
Reinvoked ==
    /\ pc = "open"
    /\ ocmd.hops > 0
    /\ last.path = ocmd.path
    /\ next = pre.next
    /\ disk = pre.disk

\* C7: every accepted open request ends with a reply: its handler is never caught
\* in a loop that does not return, and never calls itself again on the input it
\* was called with
C7_OpenTerminates ==
    last.op = "open" => (pc # "hung" /\ ~Reinvoked)

\* lxfsOpen run to its reply on the memory m (fuel bounds the redirects followed)
RECURSIVE OpenRun(_, _, _, _, _)
OpenRun(m, oc, tmpl, timestamp, fuel) ==
    LET o == lxfsOpen(m, oc, tmpl, timestamp)
    IN  IF o.recurse /\ fuel > 0 THEN OpenRun(o.m, o.oc, tmpl, timestamp, fuel - 1) ELSE o

\* the target string stored for the soft link the request named
LinkTarget ==
    CStr(Cut(pre.disk[Target.entry.block], 0, Target.entry.size) \o <<0>>, 1)

\* an answered open of a soft link whose target was an existing object
LinkCase ==
    /\ OpenDone
    /\ ocmd.mounted
    /\ last.failed = {}
    /\ Target.found
    /\ TypeOf(Target.entry.flags) = LXFS_DIR_TYPE_SOFT_LINK
    /\ Resolve(pre.next, pre.disk, LinkTarget).found

\* the same request issued on the target itself from the volume as it was
Direct ==
    OpenRun(Quiet(pre.next, pre.disk),
            [ocmd EXCEPT !.path = LinkTarget, !.status = 0, !.hops = 0],
            Template(0, 0), clock, MaxHops)

\* the entry and the blocks of the object at path p on the volume (nx, dk)
ObjectAt(nx, dk, p) ==
    LET f == Resolve(nx, dk, p)
        first == Resolve(pre.next, pre.disk, p).entry.block
    IN  [found |-> f.found, entry |-> f.entry,
         cells |-> [b \in Range(Chain(pre.next, first)) |-> <<nx[b], dk[b]>>]]

\* C8: an open of a soft link gets the reply status, and has the effect on the
\* object at the link's target, of the same request issued on the target
C8_LinkOpenIsTargetOpen ==
    LinkCase =>
        /\ ocmd.status = Direct.oc.status
        /\ ObjectAt(next, disk, LinkTarget)
              = ObjectAt(Direct.m.next, Direct.m.disk, LinkTarget)

\* an open request on a soft link is being handled or has been answered
LinkOpened ==
    /\ last.op = "open"
    /\ pc \in {"open", "done"}
    /\ last.failed = {}
    /\ Target.found
    /\ TypeOf(Target.entry.flags) = LXFS_DIR_TYPE_SOFT_LINK

\* C9: handling an open request on a soft link leaves the link's directory entry
\* and the target string in the link's block as they were
C9_LinkUntouched ==
    LinkOpened =>
        /\ Resolve(next, disk, ocmd.orig).found
        /\ Resolve(next, disk, ocmd.orig).entry = Target.entry
        /\ Cut(disk[Target.entry.block], 0, Target.entry.size)
              = Cut(pre.disk[Target.entry.block], 0, Target.entry.size)

\* the offset in the directory's cells of the first slot whose validity flag is
\* clear and whose stored entrySize is 0 or at least need; -1 if there is none
RECURSIVE FirstFreeSlot(_, _, _)
FirstFreeSlot(cells, off, need) ==
    IF off + ENTRY_FIXED > Len(cells) THEN -1
    ELSE IF /\ ~IsValid(cells[off + OFF_FLAGS + 1])
            /\ (cells[off + OFF_ENTRYSIZE + 1] = 0 \/ cells[off + OFF_ENTRYSIZE + 1] >= need)
         THEN off
    ELSE IF cells[off + OFF_ENTRYSIZE + 1] = 0 THEN -1
    ELSE FirstFreeSlot(cells, off + cells[off + OFF_ENTRYSIZE + 1], need)

\* the parent directory's cells when the create arrived
ParentCells == ChainCells(pre.next, pre.disk, last.g.parentBlock)
\* the first reusable slot of the parent
ReuseSlot == FirstFreeSlot(ParentCells, DIRHDR_SIZE, last.g.need)

\* a create has returned 0 in a directory whose first reusable slot is an
\* invalidated entry (stored entrySize not 0) at least as large as the new entry
ReuseCase ==
    /\ CreateDone
    /\ last.ret = 0
    /\ last.failed = {}
    /\ last.g.parentBlock # 0
    /\ ReuseSlot >= 0
    /\ ParentCells[ReuseSlot + OFF_ENTRYSIZE + 1] >= last.g.need
    /\ ParentCells[ReuseSlot + OFF_ENTRYSIZE + 1] > 0

\* the position in the parent's chain at which the new entry was written
PlacedAt ==
    LET ch == Chain(pre.next, last.g.parentBlock)
        i == CHOOSE i \in 1..Len(ch) : ch[i] = last.g.slotBlock
    IN  (i - 1) * blockSizeBytes + last.g.slotOff

\* C10: a create into a directory whose first slot with a clear validity flag is
\* an invalidated entry of sufficient entrySize, whatever its other flag bits,
\* writes the new entry at that slot and takes no new directory block
C10_InvalidatedSlotReused ==
    ReuseCase =>
        /\ last.g.dirBlock = 0
        /\ last.g.slotBlock \in Range(Chain(pre.next, last.g.parentBlock))
        /\ PlacedAt = ReuseSlot

\* lxfsCreate returned 0 after writing an entry whose slot crosses the end of the
\* directory block it starts in
StraddleCase ==
    /\ CreateDone
    /\ last.ret = 0
    /\ last.g.inserted
    /\ ~last.ub
    /\ last.g.slotOff + last.g.need > blockSizeBytes

\* the cells [off, off + len) of the chain that starts at block b
ReadAlong(nx, dk, b, off, len) == Cut(ChainCells(nx, dk, b), off, len)

\* C11: an entry placed where offset + entrySize exceeds the block size is read
\* back, along the parent's chain from the block and offset it was placed at, as
\* exactly the cells of the entry as built, the cells an entry inside one block has
C11_StraddleReadBack ==
    StraddleCase =>
        ReadAlong(next, disk, last.g.slotBlock, last.g.slotOff, last.g.need)
            = EntryCells(last.g.dest)

\* an entry was placed that begins in one block and ends in the next
C11_Witness ==
    /\ StraddleCase
    /\ last.g.slotOff < blockSizeBytes
    /\ last.g.dirBlock # 0
    /\ next[last.g.slotBlock] = last.g.dirBlock
    /\ disk[last.g.dirBlock][1] = EntryCells(last.g.dest)[blockSizeBytes - last.g.slotOff + 1]

\* the offset of the first free slot of sufficient size in the directory's cells,
\* the space after the last entry read as unused; -1 if the scan finds none
SlotIn(cells, need) == FirstFreeSlot(cells \o Zeros(ENTRY_FIXED), DIRHDR_SIZE, need)

\* a create, during which no device operation failed, has returned from the
\* insertion into a parent of one block that has no room for the entry: either no
\* slot, or a slot that reaches past the end of the block
FullBlockCase ==
    /\ CreateDone
    /\ last.failed = {}
    /\ last.g.parentBlock # 0
    /\ last.ret \notin {-ENOTDIR, -EACCES}
    /\ pre.next[last.g.parentBlock] = LXFS_BLOCK_EOF
    /\ \E s \in {SlotIn(ParentCells, last.g.need)} :
          s < 0 \/ s + last.g.need > blockSizeBytes

\* no slot begins inside the parent's chain
NoUsableSlot ==
    \E s \in {SlotIn(ParentCells, last.g.need)} : s < 0 \/ s >= Len(ParentCells)

\* one new block follows the parent's block and ends the chain, and every path
\* that resolved before resolves to the entry it resolved to
ChainExtended ==
    /\ last.ret = 0
    /\ next[last.g.parentBlock] \in Blocks
    /\ pre.next[next[last.g.parentBlock]] = LXFS_BLOCK_FREE
    /\ next[next[last.g.parentBlock]] = LXFS_BLOCK_EOF
    /\ \A p \in Paths :
          Resolve(pre.next, pre.disk, p).found =>
             /\ Resolve(next, disk, p).found
             /\ Resolve(next, disk, p).entry = Resolve(pre.next, pre.disk, p).entry

\* the create failed for want of space and left the parent as it was
ChainKept ==
    /\ last.ret \in {-ENOSPC, -ENOSYS}
    /\ next[last.g.parentBlock] = pre.next[last.g.parentBlock]
    /\ disk[last.g.parentBlock] = pre.disk[last.g.parentBlock]

\* C12: a create into a directory whose one block has no room for the entry
\* either extends the chain by one block, keeping every earlier child, or fails
\* with ENOSPC or ENOSYS and leaves the directory unchanged; when no slot begins
\* inside the chain the result is ENOSYS (ENOSPC when the volume has no FREE block
\* for the object)
C12_FullDirectory ==
    FullBlockCase =>
        /\ ChainExtended \/ ChainKept
        /\ NoUsableSlot =>
              \/ last.ret = -ENOSYS
              \/ last.ret = -ENOSPC /\ \A b \in Blocks : pre.next[b] # LXFS_BLOCK_FREE

\* the source line of the one device operation whose failure is not reported:
\* the re-read of the parent's first block
RereadSite == {210}

\* C13: when a block read, a block write or a chain-map update of lxfsCreate or
\* lxfsOpen failed, other than the re-read of the parent's first block after the
\* insertion, the operation reports an error: a negative return value or status
C13_FailuresReported ==
    ((CreateDone \/ OpenDone) /\ last.failed \ RereadSite # {}) => last.ret < 0

\* the create inserted its entry and the re-read of the parent's first block failed
RereadFailed ==
    /\ CreateDone
    /\ last.g.inserted
    /\ 210 \in last.failed

\* the header cells of the directory at block b on the volume v
HeaderOf(v, b) == <<v.disk[b][DH_BYTES + 1], v.disk[b][DH_ENTRIES + 1]>>

\* C14: when the entry was inserted and the re-read of the parent's first block
\* fails, lxfsCreate returns 0, the path resolves to the new entry, and the
\* parent header's total size and entry count are what they were
C14_RereadFailureSwallowed ==
    RereadFailed =>
        /\ last.ret = 0
        /\ Resolve(next, disk, last.path).found
        /\ Resolve(next, disk, last.path).entry = last.g.dest
        /\ HeaderOf([next |-> next, disk |-> disk], last.g.parentBlock)
              = HeaderOf(pre, last.g.parentBlock)

\* the paths that resolve on the volume v to a valid regular-file or hard-link
\* entry whose first block is b
NamesOf(v, b) ==
    {p \in Paths :
        \E f \in {Resolve(v.next, v.disk, p)} :
           /\ f.found
           /\ TypeOf(f.entry.flags) \in {LXFS_DIR_TYPE_FILE, LXFS_DIR_TYPE_HARD_LINK}
           /\ f.entry.block = b}

\* every regular file's reference count is the number of its names
RefCountsAgree(v) ==
    \A b \in Blocks :
       NamesOf(v, b) # {} => v.disk[b][FH_REFCOUNT + 1] = Cardinality(NamesOf(v, b))

\* C15: a call of lxfsCreate, whether it succeeds or fails, keeps the reference
\* count in every regular file's File Header equal to the number of valid
\* directory entries whose first block is the file's
C15_RefCountIsEntryCount ==
    (CreateDone /\ RefCountsAgree(pre)) => RefCountsAgree([next |-> next, disk |-> disk])

\* the path lxfsCreate resolves as the parent of path
ParentPath(path) ==
    IF pathDepth(path) <= 1 THEN <<SLASH>> ELSE SubSeq(path, 1, LastSlash(path) - 1)

\* what the parent of the created path resolved to when the request arrived
ParentThen == Resolve(pre.next, pre.disk, ParentPath(last.path))

\* the caller's one class may write the parent
CallerWrites ==
    ClassWrites(ClassOf(last.g.uid, last.g.gid, ParentThen.entry), ParentThen.entry.permissions)

\* C16: lxfsCreate returns ENOTDIR when the parent resolves to something that is
\* not a directory, EACCES when the caller's one class (owner, else group, else
\* other) lacks write permission on the parent whatever the other classes may
\* do, ENOENT when the parent does not resolve; a call that returns one of
\* these has taken no block and changed nothing on the volume
C16_ParentChecks ==
    /\ (CreateDone /\ last.failed = {}) =>
          /\ ~ParentThen.found => last.ret = -ENOENT
          /\ (ParentThen.found /\ TypeOf(ParentThen.entry.flags) # LXFS_DIR_TYPE_DIR)
                => last.ret = -ENOTDIR
          /\ (/\ ParentThen.found
              /\ TypeOf(ParentThen.entry.flags) = LXFS_DIR_TYPE_DIR
              /\ ~CallerWrites) => last.ret = -EACCES
    /\ (CreateDone /\ last.ret \in {-ENOTDIR, -EACCES, -ENOENT}) =>
          /\ Taken = {}
          /\ next = pre.next
          /\ disk = pre.disk

\* a caller of the parent's group was refused although the owner may write
C16_Witness ==
    /\ CreateDone
    /\ last.ret = -EACCES
    /\ ParentThen.found
    /\ last.g.uid # ParentThen.entry.owner
    /\ last.g.gid = ParentThen.entry.group
    /\ HasBit(ParentThen.entry.permissions, LXFS_PERMS_OWNER_W)
    /\ disk = pre.disk

\* an answered open with O_CREAT of a path that did not resolve
CreatCase ==
    /\ OpenDone
    /\ ocmd.mounted
    /\ "O_CREAT" \in ocmd.flags
    /\ ocmd.path = ocmd.orig
    /\ ~Target.found

\* the requested mode minus the umask
Derived == AndNot(ocmd.mode, ocmd.umask)

\* the derived mode lacks the owner bit of a requested access
Inconsistent ==
    \/ ("O_RDONLY" \in ocmd.flags /\ ~HasBit(Derived, S_IRUSR))
    \/ ("O_WRONLY" \in ocmd.flags /\ ~HasBit(Derived, S_IWUSR))

\* C17: an open with O_CREAT of a path that does not resolve is answered
\* AccessDenied, with no entry inserted and no block taken, when the mode minus
\* the umask lacks the owner-read bit of a requested read or the owner-write bit
\* of a requested write; otherwise the Create Engine is called and the reply
\* status is the value it returned
C17_CreatModeCheck ==
    CreatCase =>
        IF Inconsistent
        THEN /\ ocmd.status = -EACCES
             /\ ~last.created
             /\ Taken = {}
             /\ next = pre.next
             /\ disk = pre.disk
        ELSE /\ last.created
             /\ ocmd.status = last.cret

\* a creating read open was refused because the umask masks the owner-read bit
C17_Witness ==
    /\ CreatCase
    /\ "O_RDONLY" \in ocmd.flags
    /\ HasBit(ocmd.umask, S_IRUSR)
    /\ ocmd.status = -EACCES
    /\ ~last.created

\* C18: a file created by an open with O_CREAT is a regular file owned by the
\* request's uid and gid whose stored permission bits are exactly the
\* translation of (mode AND NOT umask)
C18_CreatedFileAttributes ==
    (CreatCase /\ last.created /\ last.cret = 0 /\ last.g.inserted) =>
        /\ TypeOf(last.g.dest.flags) = LXFS_DIR_TYPE_FILE
        /\ last.g.dest.owner = ocmd.uid
        /\ last.g.dest.group = ocmd.gid
        /\ last.g.dest.permissions = ModePerms(0, Derived)
        /\ Resolve(next, disk, ocmd.orig).found
              => Resolve(next, disk, ocmd.orig).entry = last.g.dest

\* lxfsCreate, not in hard-link mode, has returned 0
NewObjectDone == CreateDone /\ last.cret = 0 /\ last.g.hardLink = 0

\* the first block of the new object holds what the object's type requires
ObjectStored(b) ==
    IF S_ISDIR(last.g.mode)
    THEN /\ disk[b][DH_ENTRIES + 1] = 0
         /\ disk[b][DH_BYTES + 1] = DIRHDR_SIZE
    ELSE IF S_ISLNK(last.g.mode)
    THEN /\ CStr(disk[b], 1) = last.symlink
         /\ last.g.dest.size = Len(last.symlink)
    ELSE /\ disk[b][FH_REFCOUNT + 1] = 1
         /\ disk[b][FH_SIZE + 1] = 0

\* C19: after a successful create of a new file, directory or soft link the
\* entry's first block is a block of the volume other than block 0 that was FREE
\* before the call, so in use by nothing, and is EOF after it, and it holds a File
\* Header with refCount 1 and size 0, a Directory Header with no entries and
\* the header's size as total size, or the target string, whose length is the
\* entry's size
C19_NewObjectBlock ==
    NewObjectDone =>
        /\ last.g.dest.block = last.g.objBlock
        /\ last.g.objBlock \in Blocks
        /\ last.g.objBlock # last.g.dirBlock
        /\ pre.next[last.g.objBlock] = LXFS_BLOCK_FREE
        /\ next[last.g.objBlock] = LXFS_BLOCK_EOF
        /\ ObjectStored(last.g.objBlock)

\* a soft link was created and its block holds the target
C19_Witness ==
    /\ NewObjectDone
    /\ S_ISLNK(last.g.mode)
    /\ last.g.inserted
    /\ last.g.dest.size = 2
    /\ Cut(disk[last.g.objBlock], 0, 2) = P_a
    /\ pre.next[last.g.objBlock] = LXFS_BLOCK_FREE

\* the first blocks of the directories of the volume as the request found it
DirBlocksThen ==
    {RootBlock} \cup
    {Resolve(pre.next, pre.disk, p).entry.block :
        p \in {q \in Paths : /\ Resolve(pre.next, pre.disk, q).found
                             /\ TypeOf(Resolve(pre.next, pre.disk, q).entry.flags)
                                   = LXFS_DIR_TYPE_DIR}}

\* lxfsCreate returned 0 and its re-read of the parent's first block succeeded
CountedCase == CreateDone /\ last.cret = 0 /\ 210 \notin last.failed

\* C20: a create that returns 0 and whose re-read of the parent's first block
\* succeeded has added 1 to the parent header's entry count and the new entry's
\* entrySize to its total size, and has changed no other directory's header
C20_ParentCounters ==
    CountedCase =>
        /\ HeaderOf([next |-> next, disk |-> disk], last.g.parentBlock)
              = <<HeaderOf(pre, last.g.parentBlock)[1] + last.g.dest.entrySize,
                  HeaderOf(pre, last.g.parentBlock)[2] + 1>>
        /\ \A b \in DirBlocksThen \ {last.g.parentBlock} :
              Cut(disk[b], 0, DIRHDR_SIZE) = Cut(pre.disk[b], 0, DIRHDR_SIZE)

\* the position of block b in the sequence of blocks ch, 0 when it is not in it
RECURSIVE PosFrom(_, _, _)
PosFrom(ch, b, i) ==
    IF i > Len(ch) THEN 0 ELSE IF ch[i] = b THEN i ELSE PosFrom(ch, b, i + 1)

\* every block of the chain old is in the chain new, in the same order
KeptInOrder(old, new) ==
    /\ \A i \in 1..Len(old) : PosFrom(new, old[i], 1) > 0
    /\ \A i, j \in 1..Len(old) :
          i < j => PosFrom(new, old[i], 1) < PosFrom(new, old[j], 1)

\* a create returned 0 after taking a block for the parent directory
StraddleAllocated ==
    /\ CreateDone
    /\ last.cret = 0
    /\ last.g.inserted
    /\ last.g.dirBlock # 0

\* C21: a create that allocates a block for an entry reaching past the end of
\* the current block removes no block from the parent's chain: the blocks
\* reachable from the parent's first block before the call are reachable, in
\* the same order, after it, also when the current block had a successor
C21_StraddleKeepsChain ==
    StraddleAllocated =>
        KeptInOrder(Chain(pre.next, last.g.parentBlock), Chain(next, last.g.parentBlock))

\* an open request answered by the first invocation of lxfsOpen
FirstAnswer == OpenDone /\ ocmd.mounted /\ ocmd.hops = 0

\* the three rejections lxfsOpen decides from the resolution and the flags
Rejections == {-ENOENT, -EISDIR, -EEXIST}

\* C22: lxfsOpen replies NotFound when the path does not resolve and O_CREAT is
\* clear, IsADirectory when it resolves to a directory, AlreadyExists when it
\* resolves to something else and O_CREAT and O_EXCL are both set; an open
\* rejected in one of these ways has changed no block and no chain-map entry,
\* with O_TRUNC set or not
C22_RejectBeforeMutate ==
    /\ (FirstAnswer /\ last.failed = {}) =>
          /\ (~Target.found /\ "O_CREAT" \notin ocmd.flags) => ocmd.status = -ENOENT
          /\ (Target.found /\ TypeOf(Target.entry.flags) = LXFS_DIR_TYPE_DIR)
                => ocmd.status = -EISDIR
          /\ (/\ Target.found
              /\ TypeOf(Target.entry.flags) # LXFS_DIR_TYPE_DIR
              /\ {"O_CREAT", "O_EXCL"} \subseteq ocmd.flags) => ocmd.status = -EEXIST
    /\ (FirstAnswer /\ ~last.created /\ ocmd.status \in Rejections) =>
          /\ next = pre.next
          /\ disk = pre.disk

\* an O_TRUNC open of a directory was refused
C22_Witness ==
    /\ FirstAnswer
    /\ "O_TRUNC" \in ocmd.flags
    /\ Target.found
    /\ TypeOf(Target.entry.flags) = LXFS_DIR_TYPE_DIR
    /\ ocmd.status = -EISDIR
    /\ disk = pre.disk

\* every path that resolved on the volume the request found resolves now, to an
\* entry with the same contents
EntriesKept ==
    \A p \in Paths :
       Resolve(pre.next, pre.disk, p).found =>
          /\ Resolve(next, disk, p).found
          /\ Resolve(next, disk, p).entry = Resolve(pre.next, pre.disk, p).entry

\* C23: a create that returns 0, no device operation having failed, leaves every
\* entry that was valid and resolvable before it resolvable with identical
\* contents, in the parent (after a reused slot, across a block end) and in
\* every other directory
C23_CreateKeepsEntries ==
    (CreateDone /\ last.cret = 0 /\ last.failed = {}) => EntriesKept

\* the blocks on the chains of the root and of every entry that resolves on v
Reachable(v) ==
    Range(Chain(v.next, RootBlock)) \cup
    UNION {Range(Chain(v.next, Resolve(v.next, v.disk, p).entry.block)) :
              p \in {q \in Paths : Resolve(v.next, v.disk, q).found}}

\* every block in use is on the chain of something that resolves
NoOrphans(v) == \A b \in Blocks : v.next[b] # LXFS_BLOCK_FREE => b \in Reachable(v)

\* an open or create request has been handled without a device failure
HandledClean ==
    /\ pc = "done"
    /\ last.op \in {"open", "create"}
    /\ last.failed = {}

\* C24: an open or create request during which no device operation fails,
\* whether it succeeds or is rejected, leaves no block in use but orphaned:
\* if every block that is not FREE was on the chain of the root or of an entry
\* that resolves when the request arrived, this is so when it has been handled
C24_NoOrphanedBlocks ==
    (HandledClean /\ NoOrphans(pre)) => NoOrphans([next |-> next, disk |-> disk])

\* C25: an open request answered AccessDenied has changed nothing on the
\* volume; with O_TRUNC set and a caller whose class may not write the file,
\* the file's header size and its chain are what they were
C25_DeniedChangesNothing ==
    (OpenDone /\ last.failed = {} /\ ocmd.status = -EACCES) =>
        /\ next = pre.next
        /\ disk = pre.disk

\* the offsets of the valid entries a scan of cells from idx passes
RECURSIVE ValidAt(_, _)
ValidAt(cells, idx) ==
    IF idx + ENTRY_FIXED > Len(cells) THEN {}
    ELSE (IF IsValid(cells[idx + OFF_FLAGS + 1]) THEN {idx} ELSE {}) \cup
         (IF cells[idx + OFF_ENTRYSIZE + 1] = 0 THEN {}
          ELSE ValidAt(cells, idx + cells[idx + OFF_ENTRYSIZE + 1]))

\* the valid entries of the directory whose first block is b
EntriesOf(v, b) ==
    {ParseEntry(ChainCells(v.next, v.disk, b), i) :
        i \in ValidAt(ChainCells(v.next, v.disk, b), DIRHDR_SIZE)}

\* the first blocks of the directories entered in the directories ds
SubDirs(v, ds) ==
    {e.block : e \in {x \in UNION {EntriesOf(v, d) : d \in ds} :
                         TypeOf(x.flags) = LXFS_DIR_TYPE_DIR /\ x.block \in Blocks}}

\* the directories of the volume (the root, its directories and theirs) and
\* every valid entry in them
Directories(v) ==
    {RootBlock} \cup SubDirs(v, {RootBlock}) \cup SubDirs(v, SubDirs(v, {RootBlock}))
AllEntries(v) == UNION {EntriesOf(v, d) : d \in Directories(v)}

\* following the links from b reaches EOF, past no FREE block and no cycle
RECURSIVE EndsAtEOF(_, _, _)
EndsAtEOF(nx, b, fuel) ==
    /\ b \in Blocks
    /\ fuel > 0
    /\ nx[b] # LXFS_BLOCK_FREE
    /\ (nx[b] = LXFS_BLOCK_EOF \/ EndsAtEOF(nx, nx[b], fuel - 1))

FirstBlocksInUse(v) ==
    \A e \in AllEntries(v) : e.block \in Blocks /\ v.next[e.block] # LXFS_BLOCK_FREE
ChainsEnd(v) ==
    \A e \in AllEntries(v) : e.block \in Blocks => EndsAtEOF(v.next, e.block, NumBlocks)
ChainsApart(v) ==
    \A b1, b2 \in {RootBlock} \cup {e.block : e \in AllEntries(v)} :
        b1 # b2 => Range(Chain(v.next, b1)) \cap Range(Chain(v.next, b2)) = {}
ChainsSound(v) == FirstBlocksInUse(v) /\ ChainsEnd(v) /\ ChainsApart(v)

\* C26: in every state reached by open and create requests, with or without
\* device failures, the first block of every valid entry is in use, its chain
\* ends at EOF past no FREE block and no cycle, and the chains of two objects
\* with different first blocks share no block
C26_ChainsSound ==
    (pc = "done" /\ last.op \in {"open", "create"} /\ ChainsSound(pre)) =>
        ChainsSound([next |-> next, disk |-> disk])

\* the create just handled, run again on the volume as it was when the request
\* arrived, with the scratch buffer filled with fill
CreateAgain(fill) ==
    lxfsCreate([Quiet(pre.next, pre.disk) EXCEPT !.db = Fill(2 * blockSizeBytes, fill)],
               Template(last.hardLink, last.tmplPerms), last.path, last.mode,
               last.uid, last.gid, last.symlink, clock)

\* C27: the return value of lxfsCreate and the volume it leaves depend only on
\* the volume and the request, not on what earlier requests left in the
\* scratch buffer: the same request on the same volume with any other buffer
\* contents gives the same return value and the same volume
C27_BufferIndependent ==
    (pc = "done" /\ last.op = "create" /\ last.failed = {}) =>
        \A fill \in BufferFills :
            \E c \in {CreateAgain(fill)} :
                /\ c.ret = last.ret
                /\ c.m.next = next
                /\ c.m.disk = disk

\* no directory of v holds two valid entries with the same name
NoTwins(v) ==
    \A d \in Directories(v) :
        \A i, j \in ValidAt(ChainCells(v.next, v.disk, d), DIRHDR_SIZE) :
            i # j => ParseEntry(ChainCells(v.next, v.disk, d), i).name #
                     ParseEntry(ChainCells(v.next, v.disk, d), j).name

\* C28: an open request, whatever its flags, on a volume in which no directory
\* holds two valid entries with the same name leaves such a volume
C28_NoTwinEntries ==
    (OpenDone /\ NoTwins(pre)) => NoTwins([next |-> next, disk |-> disk])

====
